---- MODULE Spec2Model ----
(***************************************************************************)
(* Model of the Construction Defect Detection API (src/api.py): the        *)
(* startup hook load_model, the health endpoint, POST /predict and         *)
(* POST /predict/bulk, with preprocess_image and predict_defect as         *)
(* operators.  Strings the code transforms (class names, prediction text)  *)
(* are sequences of one-character strings; scores are percentages.         *)
(***************************************************************************)
EXTENDS Integers, Sequences, FiniteSets, TLC

VARIABLES
    started,       \* the startup hook load_model has run
    model_file,    \* what is on disk at MODEL_PATH
    label_file,    \* what is on disk at LABEL_MAP_PATH
    model,         \* global model (NoModel is Python's None)
    class_labels,  \* global class_labels: the parsed JSON object, in file order
    idx_to_label,  \* global idx_to_label: index -> class name
    request,       \* the request most recently handled
    response,      \* its response
    img_shapes     \* shapes of the img_array values that request produced, in order

vars == <<started, model_file, label_file, model, class_labels, idx_to_label,
          request, response, img_shapes>>

----------------------------------------------------------------------------
(* Bounds of the model *)

MaxOut == 3
MaxFiles == 2

(* Program constants *)

IMAGE_SIZE == 128

----------------------------------------------------------------------------
(* Strings as character sequences *)

UpperChars == <<"A","B","C","D","E","F","G","H","I","J","K","L","M",
                "N","O","P","Q","R","S","T","U","V","W","X","Y","Z">>
LowerChars == <<"a","b","c","d","e","f","g","h","i","j","k","l","m",
                "n","o","p","q","r","s","t","u","v","w","x","y","z">>

IsUpper(c) == \E i \in 1..26 : UpperChars[i] = c
IsLower(c) == \E i \in 1..26 : LowerChars[i] = c
ToLower(c) == IF IsUpper(c) THEN LowerChars[CHOOSE i \in 1..26 : UpperChars[i] = c] ELSE c
ToUpper(c) == IF IsLower(c) THEN UpperChars[CHOOSE i \in 1..26 : LowerChars[i] = c] ELSE c

\* str.lower()
lower(s) == [i \in 1..Len(s) |-> ToLower(s[i])]

\* str.replace('_', ' ')
replace_underscore(s) == [i \in 1..Len(s) |-> IF s[i] = "_" THEN " " ELSE s[i]]

\* str.title(): a cased character is upper-cased when it starts a word
\* (the previous character is not cased) and lower-cased otherwise
IsCased(c) == IsUpper(c) \/ IsLower(c)
title(s) == [i \in 1..Len(s) |->
               IF ~IsCased(s[i]) THEN s[i]
               ELSE IF i > 1 /\ IsCased(s[i-1]) THEN ToLower(s[i]) ELSE ToUpper(s[i])]

S_algae == <<"a","l","g","a","e">>
S_major_crack == <<"m","a","j","o","r","_","c","r","a","c","k">>
S_minor_crack == <<"m","i","n","o","r","_","c","r","a","c","k">>
S_normal == <<"n","o","r","m","a","l">>
S_Normal == <<"N","o","r","m","a","l">>
S_NORMAL == <<"N","O","R","M","A","L">>
S_peeling == <<"p","e","e","l","i","n","g">>
S_spalling == <<"s","p","a","l","l","i","n","g">>
S_stain == <<"s","t","a","i","n">>
S_Unknown == <<"U","n","k","n","o","w","n">>
S_DefectDetected == <<" ","(","D","e","f","e","c","t"," ","D","e","t","e","c","t","e","d",")">>
S_NoDefect == <<" ","(","N","o"," ","D","e","f","e","c","t",")">>

----------------------------------------------------------------------------
(* The environment: files on disk and uploaded images *)

\* Input geometry of the model stored at MODEL_PATH
Geometries ==
    { [kind |-> "Flattened", length |-> 150528],
      [kind |-> "Spatial", dynamic |-> FALSE, height |-> 128, width |-> 128, channels |-> 3],
      [kind |-> "Spatial", dynamic |-> FALSE, height |-> 224, width |-> 224, channels |-> 3],
      [kind |-> "Spatial", dynamic |-> TRUE, channels |-> 3] }

ModelFiles ==
    { [exists |-> FALSE] , [exists |-> TRUE, loadable |-> FALSE] }
    \cup { [exists |-> TRUE, loadable |-> TRUE, geometry |-> g] : g \in Geometries }

\* Contents of label_map.json: name/index pairs in file order
LabelMaps ==
    { << <<S_algae, 0>>, <<S_normal, 1>>, <<S_major_crack, 2>> >>,
      << <<S_algae, 0>>, <<S_Normal, 1>> >>,
      << <<S_NORMAL, 0>>, <<S_algae, 2>> >>,
      << <<S_algae, 0>>, <<S_normal, 0>> >>,
      << <<S_normal, 0>> >>,
      << >> }

LabelFiles ==
    { [exists |-> FALSE], [exists |-> TRUE, readable |-> FALSE] }
    \cup { [exists |-> TRUE, readable |-> TRUE, content |-> m] : m \in LabelMaps }

Scores == {20, 73}

RECURSIVE VectorsOfLen(_)
VectorsOfLen(n) ==
    IF n = 0 THEN { <<>> }
    ELSE { Append(v, s) : v \in VectorsOfLen(n - 1), s \in Scores }

\* What model.predict returns for an image: a score vector, or <<>> when
\* the call raises
OutputVectors ==
    UNION { VectorsOfLen(n) : n \in 1..MaxOut }
        \cup { <<50>>, <<10, 5, 5, 70, 5, 3, 2>> }

Images ==
    { [mode |-> "RGB", size |-> <<128, 128>>],
      [mode |-> "L", size |-> <<640, 480>>],
      [mode |-> "RGBA", size |-> <<224, 224>>] }

\* Uploaded files of POST /predict
SingleFiles ==
    { [filename |-> "a.jpg", decodable |-> FALSE] }
    \cup { [filename |-> "a.jpg", decodable |-> TRUE, image |-> im, scores |-> v] :
             im \in Images, v \in OutputVectors \cup { <<>> } }

\* Uploaded files of POST /predict/bulk
BulkFiles ==
    { [filename |-> "a.jpg", decodable |-> TRUE, image |-> [mode |-> "RGB", size |-> <<128, 128>>],
       scores |-> <<20, 73>>],
      [filename |-> "b.jpg", decodable |-> TRUE, image |-> [mode |-> "L", size |-> <<640, 480>>],
       scores |-> <<73, 20>>],
      [filename |-> "c.jpg", decodable |-> FALSE],
      [filename |-> "a.jpg", decodable |-> TRUE, image |-> [mode |-> "RGBA", size |-> <<224, 224>>],
       scores |-> <<20, 20, 73>>] }

RECURSIVE FileLists(_)
FileLists(n) ==
    IF n = 0 THEN { <<>> }
    ELSE { Append(fs, f) : fs \in FileLists(n - 1), f \in BulkFiles }

BulkRequests == UNION { FileLists(n) : n \in 1..MaxFiles }

----------------------------------------------------------------------------
(* Exceptions: a call either returns a value or raises with a message *)

Return(v) == [raised |-> FALSE, value |-> v]
Raise(msg) == [raised |-> TRUE, msg |-> msg]

NoModel == [loaded |-> FALSE]

----------------------------------------------------------------------------
(* preprocess_image *)

Bands(mode) == CASE mode = "RGB" -> 3 [] mode = "RGBA" -> 4 [] mode = "L" -> 1

\* Image.convert("RGB")
convert_rgb(image) == [image EXCEPT !.mode = "RGB"]

\* Image.resize((w, h))
resize(image, size) == [image EXCEPT !.size = size]

\* shape of np.array(image): (height, width) for a single band, else
\* (height, width, bands); PIL's size is (width, height)
np_array_shape(image) ==
    IF Bands(image.mode) = 1 THEN <<image.size[2], image.size[1]>>
    ELSE <<image.size[2], image.size[1], Bands(image.mode)>>

\* np.expand_dims(a, axis=0)
expand_dims(shape) == <<1>> \o shape

\* A bug that drops the RGB conversion
preprocess_image_NoConvert(image) ==
    expand_dims(np_array_shape(resize(image, <<IMAGE_SIZE, IMAGE_SIZE>>)))

\* shape of the array preprocess_image returns
preprocess_image(image) ==
    LET rgb == IF image.mode # "RGB" THEN convert_rgb(image) ELSE image
        resized == resize(rgb, <<IMAGE_SIZE, IMAGE_SIZE>>)
    IN  expand_dims(np_array_shape(resized))

----------------------------------------------------------------------------
(* predict_defect *)

\* A bug that keeps the last maximum instead of the first
RECURSIVE ArgMaxLastFrom(_, _, _)
ArgMaxLastFrom(v, i, best) ==
    IF i >= Len(v) THEN best
    ELSE ArgMaxLastFrom(v, i + 1, IF v[i + 1] >= v[best + 1] THEN i ELSE best)

argmax_Last(v) == ArgMaxLastFrom(v, 1, 0)

\* np.argmax: scan left to right, a later element replaces the best only
\* when strictly greater; indices are 0-based
RECURSIVE ArgMaxFrom(_, _, _)
ArgMaxFrom(v, i, best) ==
    IF i >= Len(v) THEN best
    ELSE ArgMaxFrom(v, i + 1, IF v[i + 1] > v[best + 1] THEN i ELSE best)

argmax(v) == ArgMaxFrom(v, 1, 0)

\* np.max
np_max(v) == CHOOSE m \in { v[i] : i \in 1..Len(v) } : \A i \in 1..Len(v) : v[i] <= m

\* A bug that compares the class name case-sensitively
has_defect_CaseSensitive(predicted_class) == predicted_class # S_normal

\* has_defect = (predicted_class.lower() != "normal")
has_defect_of(predicted_class) == lower(predicted_class) # S_normal

\* the "prediction" text of the result
prediction_text(predicted_class, has_defect) ==
    title(replace_underscore(predicted_class))
        \o (IF has_defect THEN S_DefectDetected ELSE S_NoDefect)

\* A bug that builds the map from the registry's indices that the output has
all_probabilities_OverRegistry(scores) ==
    LET idxs == { i \in DOMAIN idx_to_label : i < Len(scores) }
    IN  Return([n \in { idx_to_label[i] : i \in idxs } |->
                  scores[(CHOOSE i \in idxs : idx_to_label[i] = n) + 1]])

\* {idx_to_label[i]: float(prediction[0][i]) for i in range(len(prediction[0]))}
\* raises KeyError at the first position the registry has no name for; a
\* later position overwrites an earlier one with the same name
all_probabilities(scores) ==
    LET idxs == 0..(Len(scores) - 1)
        missing == { i \in idxs : i \notin DOMAIN idx_to_label }
    IN  IF missing # {}
        THEN Raise(ToString(CHOOSE i \in missing : \A j \in missing : i <= j))
        ELSE Return([n \in { idx_to_label[i] : i \in idxs } |->
                       scores[(CHOOSE i \in idxs : idx_to_label[i] = n
                                 /\ \A j \in idxs : idx_to_label[j] = n => j <= i) + 1]])

\* A bug that drops the "Model not loaded" guard: calling predict on None
\* raises AttributeError only when there is no model, and the record is
\* built otherwise; modelled as the guard being skipped
predict_defect_NoGuard(scores) ==
    IF scores = <<>> THEN Raise("predict failed")
    ELSE
        LET predicted_class_idx == argmax(scores)
            confidence == np_max(scores)
            predicted_class == IF predicted_class_idx \in DOMAIN idx_to_label
                               THEN idx_to_label[predicted_class_idx] ELSE S_Unknown
            has_defect == has_defect_of(predicted_class)
            probs == all_probabilities(scores)
        IN  IF probs.raised THEN probs
            ELSE Return([has_defect |-> has_defect,
                         defect_type |-> predicted_class,
                         confidence |-> confidence,
                         prediction |-> prediction_text(predicted_class, has_defect),
                         all_probabilities |-> probs.value])

\* A bug that thresholds a single-score output at 0.5 instead of looking
\* the class up
predict_defect_Binary(scores) ==
    IF Len(scores) = 1 /\ model # NoModel
    THEN LET r == predict_defect_NoGuard(scores)
         IN  IF r.raised THEN r
             ELSE Return([r.value EXCEPT !.has_defect = scores[1] > 50])
    ELSE IF model = NoModel THEN Raise("Model not loaded")
    ELSE predict_defect_NoGuard(scores)

\* predict_defect(img_array); scores is what model.predict returns for the
\* image (<<>>: the call raises)
predict_defect(scores) ==
    IF model = NoModel THEN Raise("Model not loaded")
    ELSE IF scores = <<>> THEN Raise("predict failed")
    ELSE
        LET predicted_class_idx == argmax(scores)
            confidence == np_max(scores)
            predicted_class == IF predicted_class_idx \in DOMAIN idx_to_label
                               THEN idx_to_label[predicted_class_idx] ELSE S_Unknown
            has_defect == has_defect_of(predicted_class)
            probs == all_probabilities(scores)
        IN  IF probs.raised THEN probs
            ELSE Return([has_defect |-> has_defect,
                         defect_type |-> predicted_class,
                         confidence |-> confidence,
                         prediction |-> prediction_text(predicted_class, has_defect),
                         all_probabilities |-> probs.value])

----------------------------------------------------------------------------
(* load_model: the startup hook *)

\* the fallback idx_to_label
DefaultNames == <<S_algae, S_major_crack, S_minor_crack, S_normal,
                  S_peeling, S_spalling, S_stain>>
DefaultIdxToLabel == [i \in 0..6 |-> DefaultNames[i + 1]]

EmptyDict == [i \in {} |-> 0]

\* {v: k for k, v in class_labels.items()}: pairs are visited in file
\* order and a later pair overwrites an earlier one with the same index
RECURSIVE InvertFrom(_, _, _)
InvertFrom(pairs, i, acc) ==
    IF i > Len(pairs) THEN acc
    ELSE InvertFrom(pairs, i + 1,
                    [k \in DOMAIN acc \cup { pairs[i][2] } |->
                        IF k = pairs[i][2] THEN pairs[i][1] ELSE acc[k]])

invert(pairs) == InvertFrom(pairs, 1, EmptyDict)

\* the globals after load_model: the model branch, then the label branch;
\* an exception in either leaves the rest of the body undone
load_model_result ==
    LET model1 == IF model_file.exists /\ model_file.loadable
                  THEN [loaded |-> TRUE, geometry |-> model_file.geometry]
                  ELSE model
        model_raised == model_file.exists /\ ~model_file.loadable
    IN  IF model_raised
        THEN [model |-> model, class_labels |-> class_labels, idx_to_label |-> idx_to_label]
        ELSE IF label_file.exists
        THEN IF label_file.readable
             THEN [model |-> model1, class_labels |-> label_file.content,
                   idx_to_label |-> invert(label_file.content)]
             ELSE [model |-> model1, class_labels |-> class_labels,
                   idx_to_label |-> idx_to_label]
        ELSE [model |-> model1, class_labels |-> class_labels,
              idx_to_label |-> DefaultIdxToLabel]

----------------------------------------------------------------------------
(* The endpoints *)

Error500(msg) == [status |-> 500, body |-> [success |-> FALSE, error |-> msg]]

\* the try body shared by both endpoints: read, Image.open,
\* preprocess_image, predict_defect
classify(file) ==
    IF ~file.decodable THEN Raise("cannot identify image file")
    ELSE predict_defect(file.scores)

\* POST /predict
predict_single(file) ==
    LET r == classify(file)
    IN  IF r.raised THEN Error500(r.msg)
        ELSE [status |-> 200,
              body |-> [success |-> TRUE,
                        prediction |-> r.value.prediction,
                        has_defect |-> r.value.has_defect,
                        defect_type |-> r.value.defect_type,
                        confidence |-> r.value.confidence,
                        all_probabilities |-> r.value.all_probabilities]]

\* A bug that drops a failed item instead of recording it
bulk_step_SkipFailed(results, file) ==
    LET r == classify(file)
    IN  IF r.raised THEN results
        ELSE Append(results, [image_name |-> file.filename,
                              prediction |-> r.value.prediction,
                              defect_type |-> r.value.defect_type,
                              confidence |-> r.value.confidence,
                              has_defect |-> r.value.has_defect])

\* one iteration of the loop of predict_bulk: the inner try/except
bulk_step(results, file) ==
    LET r == classify(file)
    IN  IF r.raised
        THEN Append(results, [image_name |-> file.filename,
                              prediction |-> <<"Error: ", r.msg>>])
        ELSE Append(results, [image_name |-> file.filename,
                              prediction |-> r.value.prediction,
                              defect_type |-> r.value.defect_type,
                              confidence |-> r.value.confidence,
                              has_defect |-> r.value.has_defect])

RECURSIVE bulk_loop(_, _, _)
bulk_loop(files, i, results) ==
    IF i > Len(files) THEN results
    ELSE bulk_loop(files, i + 1, bulk_step(results, files[i]))

\* A bug that lets an item's exception reach the outer handler
predict_bulk_NoIsolation(files) ==
    LET failed == { i \in 1..Len(files) : classify(files[i]).raised }
    IN  IF failed # {}
        THEN Error500(classify(files[CHOOSE i \in failed : \A j \in failed : i <= j]).msg)
        ELSE [status |-> 200,
              body |-> [success |-> TRUE, total_images |-> Len(files),
                        results |-> bulk_loop(files, 1, <<>>)]]

\* POST /predict/bulk
predict_bulk(files) ==
    [status |-> 200,
     body |-> [success |-> TRUE, total_images |-> Len(files),
               results |-> bulk_loop(files, 1, <<>>)]]

\* the dashboard's bulk rendering: the icon chosen from the prediction text
RECURSIVE contains_at(_, _, _)
contains_at(text, sub, k) ==
    IF k + Len(sub) - 1 > Len(text) THEN FALSE
    ELSE IF SubSeq(text, k, k + Len(sub) - 1) = sub THEN TRUE
    ELSE contains_at(text, sub, k + 1)

contains(text, sub) == contains_at(text, sub, 1)

S_sub_DefectDetected == SubSeq(S_DefectDetected, 3, 17)
S_sub_NoDefect == SubSeq(S_NoDefect, 3, 11)

bulk_icon(prediction) ==
    IF contains(prediction, S_sub_DefectDetected) THEN "warning"
    ELSE IF contains(prediction, S_sub_NoDefect) THEN "check"
    ELSE "question"

\* GET /health
health_check ==
    [status |-> 200,
     body |-> [status |-> "healthy", model_loaded |-> model # NoModel,
               model_path |-> "model.keras",
               classes |-> IF class_labels # <<>>
                           THEN [i \in 1..Len(class_labels) |-> class_labels[i][1]]
                           ELSE <<>>]]

\* the img_array values a request produces: one per decodable file
RECURSIVE shapes_of(_, _)
shapes_of(files, i) ==
    IF i > Len(files) THEN <<>>
    ELSE (IF files[i].decodable THEN <<preprocess_image(files[i].image)>> ELSE <<>>)
            \o shapes_of(files, i + 1)

----------------------------------------------------------------------------
(* The state machine *)

Init ==
    /\ started = FALSE
    /\ model_file \in ModelFiles
    /\ label_file \in LabelFiles
    /\ model = NoModel
    /\ class_labels = <<>>
    /\ idx_to_label = EmptyDict
    /\ request = [endpoint |-> "none"]
    /\ response = [status |-> 0]
    /\ img_shapes = <<>>

Startup ==
    /\ ~started
    /\ started' = TRUE
    /\ model' = load_model_result.model
    /\ class_labels' = load_model_result.class_labels
    /\ idx_to_label' = load_model_result.idx_to_label
    /\ UNCHANGED <<model_file, label_file, request, response, img_shapes>>

PredictSingle ==
    /\ started
    /\ \E file \in SingleFiles :
        /\ request' = [endpoint |-> "/predict", file |-> file]
        /\ response' = predict_single(file)
        /\ img_shapes' = shapes_of(<<file>>, 1)
    /\ UNCHANGED <<started, model_file, label_file, model, class_labels, idx_to_label>>

PredictBulk ==
    /\ started
    /\ \E files \in BulkRequests :
        /\ request' = [endpoint |-> "/predict/bulk", files |-> files]
        /\ response' = predict_bulk(files)
        /\ img_shapes' = shapes_of(files, 1)
    /\ UNCHANGED <<started, model_file, label_file, model, class_labels, idx_to_label>>

Health ==
    /\ started
    /\ request' = [endpoint |-> "/health"]
    /\ response' = health_check
    /\ img_shapes' = <<>>
    /\ UNCHANGED <<started, model_file, label_file, model, class_labels, idx_to_label>>

Next == Startup \/ PredictSingle \/ PredictBulk \/ Health

Spec == Init /\ [][Next]_vars

----------------------------------------------------------------------------
(* Properties *)

IsSingle == request.endpoint = "/predict"
IsBulk == request.endpoint = "/predict/bulk"

IsErrorOutcome(item) ==
    /\ DOMAIN item = {"image_name", "prediction"}
    /\ Len(item.prediction) = 2
    /\ item.prediction[1] = "Error: "

IsDecisionRecord(item) ==
    DOMAIN item = {"image_name", "prediction", "defect_type", "confidence", "has_defect"}

EndsWith(text, suffix) ==
    /\ Len(text) >= Len(suffix)
    /\ SubSeq(text, Len(text) - Len(suffix) + 1, Len(text)) = suffix

\* the single request is one the model scored: decodable, model loaded,
\* model.predict returned a vector
SingleScored ==
    /\ IsSingle
    /\ request.file.decodable
    /\ model # NoModel
    /\ request.file.scores # <<>>

\* C1: a bulk response has one result per uploaded file, total_images is
\* the number of files, and the i-th result carries the i-th file's name
C1_BulkLengthAndOrder ==
    IsBulk =>
        /\ response.status = 200
        /\ Len(response.body.results) = Len(request.files)
        /\ response.body.total_images = Len(request.files)
        /\ \A i \in 1..Len(request.files) :
               response.body.results[i].image_name = request.files[i].filename

C1_Witness ==
    /\ IsBulk
    /\ Len(request.files) >= 2
    /\ \E i, j \in 1..Len(request.files) :
        /\ i < j
        /\ IsErrorOutcome(response.body.results[i])
        /\ IsDecisionRecord(response.body.results[j])
        /\ request.files[i].filename # request.files[j].filename

\* C2: in a bulk response every item is what POST /predict gives for that
\* file alone (an Error Outcome with its message when that fails, the same
\* record fields when it succeeds), and the response reports success
C2_BulkIsolation ==
    IsBulk =>
        /\ response.status = 200
        /\ response.body.success
        /\ Len(response.body.results) = Len(request.files)
        /\ \A i \in 1..Len(request.files) :
            LET item == response.body.results[i]
                alone == predict_single(request.files[i])
            IN  IF alone.status = 200
                THEN /\ IsDecisionRecord(item)
                     /\ item.prediction = alone.body.prediction
                     /\ item.defect_type = alone.body.defect_type
                     /\ item.confidence = alone.body.confidence
                     /\ item.has_defect = alone.body.has_defect
                ELSE item = [image_name |-> request.files[i].filename,
                             prediction |-> <<"Error: ", alone.body.error>>]

C2_Witness ==
    /\ IsBulk
    /\ model # NoModel
    /\ Len(request.files) >= 2
    /\ ~request.files[1].decodable
    /\ IsErrorOutcome(response.body.results[1])
    /\ IsDecisionRecord(response.body.results[2])

\* C3: when the arg-max index has no name in the registry, POST /predict
\* answers success with defect_type "Unknown"
C3_UnknownNotFatal ==
    (SingleScored /\ argmax(request.file.scores) \notin DOMAIN idx_to_label) =>
        /\ response.status = 200
        /\ response.body.success
        /\ response.body.defect_type = S_Unknown

\* the tensor shape the description gives for a model's input geometry
ClaimedShape ==
    IF model = NoModel THEN <<1, 224, 224, 3>>
    ELSE IF model.geometry.kind = "Flattened" THEN <<1, model.geometry.length>>
    ELSE IF model.geometry.dynamic THEN <<1, 224, 224, 3>>
    ELSE <<1, model.geometry.height, model.geometry.width, 3>>

\* C4 as stated: every preprocessed tensor has shape (1,) + geometry
C4_ShapeMatchesGeometry ==
    \A i \in 1..Len(img_shapes) : img_shapes[i] = ClaimedShape

\* C4 amended: every decodable image, whatever its mode and size and
\* whatever the model's geometry, is preprocessed to (1, 128, 128, 3);
\* that is (1,) + geometry only for Spatial{128, 128, 3}
C4_ShapeFixed ==
    /\ \A i \in 1..Len(img_shapes) : img_shapes[i] = <<1, 128, 128, 3>>
    /\ IsSingle => Len(img_shapes) = (IF request.file.decodable THEN 1 ELSE 0)
    /\ (img_shapes # <<>> /\ model # NoModel) =>
           ((img_shapes[1] = ClaimedShape) <=>
              (/\ model.geometry.kind = "Spatial"
               /\ ~model.geometry.dynamic
               /\ model.geometry.height = 128
               /\ model.geometry.width = 128))

C4_Witness ==
    /\ IsSingle
    /\ request.file.decodable
    /\ request.file.image.mode = "L"
    /\ request.file.image.size = <<640, 480>>
    /\ model # NoModel
    /\ model.geometry.kind = "Flattened"
    /\ img_shapes = << <<1, 128, 128, 3>> >>

\* C5 as stated: a single-score output is thresholded at 0.5 and the
\* record has no label and no probability map (taken where the registry
\* names index 0, so that a record is produced)
C5_BinaryThreshold ==
    (SingleScored /\ Len(request.file.scores) = 1 /\ 0 \in DOMAIN idx_to_label) =>
        /\ response.status = 200
        /\ response.body.has_defect = (request.file.scores[1] > 50)
        /\ response.body.confidence = request.file.scores[1]
        /\ "defect_type" \notin DOMAIN response.body
        /\ "all_probabilities" \notin DOMAIN response.body

\* C5 amended: a single-score output is a one-class vector: index 0 is
\* predicted, the label is the registry's name for 0, has_defect depends on
\* that name alone, and the map has that one entry; without a name for 0
\* the call raises KeyError
C5_ScalarIsOneClass ==
    (SingleScored /\ Len(request.file.scores) = 1) =>
        IF 0 \in DOMAIN idx_to_label
        THEN /\ response.status = 200
             /\ response.body.confidence = request.file.scores[1]
             /\ response.body.defect_type = idx_to_label[0]
             /\ response.body.has_defect = (lower(idx_to_label[0]) # S_normal)
             /\ DOMAIN response.body.all_probabilities = { idx_to_label[0] }
             /\ response.body.all_probabilities[idx_to_label[0]] = request.file.scores[1]
        ELSE response = Error500("0")

C5_Witness ==
    /\ SingleScored
    /\ request.file.scores = <<20>>
    /\ response.status = 200
    /\ response.body.defect_type = S_algae
    /\ response.body.has_defect
    /\ response.body.confidence = 20

\* the lowest index among those holding the maximum score
FirstMaxIndex(v) ==
    CHOOSE i \in 0..(Len(v) - 1) :
        /\ \A j \in 1..Len(v) : v[j] <= v[i + 1]
        /\ \A k \in 0..(i - 1) : v[k + 1] < v[i + 1]

\* C6: the predicted index is the lowest index holding the maximum, the
\* label is the registry's name for it and confidence is its score
C6_StableArgMax ==
    (SingleScored /\ response.status = 200) =>
        LET v == request.file.scores
        IN  /\ argmax(v) = FirstMaxIndex(v)
            /\ response.body.defect_type = idx_to_label[FirstMaxIndex(v)]
            /\ response.body.confidence = v[FirstMaxIndex(v) + 1]

C6_Witness ==
    /\ SingleScored
    /\ response.status = 200
    /\ request.file.scores = <<20, 73, 73>>
    /\ response.body.defect_type = S_normal
    /\ idx_to_label[2] = S_major_crack

\* equality of two names up to letter case
SameIgnoringCase(a, b) ==
    /\ Len(a) = Len(b)
    /\ \A i \in 1..Len(a) : a[i] = b[i] \/ ToUpper(a[i]) = b[i] \/ a[i] = ToUpper(b[i])

DecisionOK(rec) ==
    /\ rec.has_defect = ~SameIgnoringCase(rec.defect_type, S_normal)
    /\ EndsWith(rec.prediction, S_NoDefect) <=> ~rec.has_defect
    /\ EndsWith(rec.prediction, S_DefectDetected) <=> rec.has_defect
    /\ bulk_icon(rec.prediction) = (IF rec.has_defect THEN "warning" ELSE "check")

\* C7: has_defect is false exactly when the label is "normal" in any
\* letter case, and the prediction text ends in "(No Defect)" exactly then
\* and in "(Defect Detected)" otherwise
C7_NormalMeansNoDefect ==
    /\ (IsSingle /\ response.status = 200) => DecisionOK(response.body)
    /\ IsBulk =>
         \A i \in 1..Len(response.body.results) :
            IsDecisionRecord(response.body.results[i]) =>
                DecisionOK(response.body.results[i])

C7_Witness ==
    /\ IsBulk
    /\ \E i, j \in 1..Len(response.body.results) :
        /\ IsDecisionRecord(response.body.results[i])
        /\ IsDecisionRecord(response.body.results[j])
        /\ response.body.results[i].defect_type = S_Normal
        /\ ~response.body.results[i].has_defect
        /\ response.body.results[j].has_defect

RegistryIndices == DOMAIN idx_to_label

\* C8 as stated: the map of a record has exactly one entry per registry
\* index, name -> score at that index
C8_ProbsCoverRegistry ==
    (SingleScored /\ response.status = 200) =>
        /\ DOMAIN response.body.all_probabilities
              = { idx_to_label[i] : i \in RegistryIndices }
        /\ \A i \in RegistryIndices :
              response.body.all_probabilities[idx_to_label[i]]
                  = request.file.scores[i + 1]

\* C8 amended: the map has exactly one entry per position of the output
\* vector, registry name -> score, so registry indices beyond the output
\* have no entry; when a position has no registry name the call raises
\* KeyError for the first such position and no record is produced
C8_ProbsCoverOutput ==
    SingleScored =>
        LET v == request.file.scores
            positions == 0..(Len(v) - 1)
            missing == positions \ RegistryIndices
        IN  IF missing = {}
            THEN /\ response.status = 200
                 /\ DOMAIN response.body.all_probabilities
                       = { idx_to_label[i] : i \in positions }
                 /\ Cardinality(DOMAIN response.body.all_probabilities) = Len(v)
                 /\ \A i \in positions :
                       response.body.all_probabilities[idx_to_label[i]] = v[i + 1]
            ELSE /\ response.status = 500
                 /\ \E i \in missing :
                       /\ \A j \in missing : i <= j
                       /\ response.body.error = ToString(i)

C8_Witness ==
    /\ SingleScored
    /\ response.status = 200
    /\ Len(request.file.scores) = 2
    /\ idx_to_label = DefaultIdxToLabel
    /\ DOMAIN response.body.all_probabilities = {S_algae, S_major_crack}

HasDuplicateIndex(pairs) ==
    \E i, j \in 1..Len(pairs) : i # j /\ pairs[i][2] = pairs[j][2]

\* C9: building the registry from a mapping with a duplicated index fails,
\* and a registry that was built is the exact inverse of the mapping
C9_DuplicateIndexFails ==
    (started /\ label_file.exists /\ label_file.readable
       /\ ~(model_file.exists /\ ~model_file.loadable)) =>
        IF HasDuplicateIndex(label_file.content)
        THEN idx_to_label = EmptyDict
        ELSE \A i \in 1..Len(class_labels) :
                /\ class_labels[i][2] \in DOMAIN idx_to_label
                /\ idx_to_label[class_labels[i][2]] = class_labels[i][1]

\* C10: startup with a missing model file leaves no model, and while no
\* model is loaded POST /predict answers 500 {success: false, error} and
\* every bulk item is an Error Outcome
C10_NoModelNoDecision ==
    /\ (started /\ ~model_file.exists) => model = NoModel
    /\ (started /\ model = NoModel) =>
        /\ IsSingle =>
            /\ response.status = 500
            /\ response.body.success = FALSE
            /\ DOMAIN response.body = {"success", "error"}
        /\ IsBulk =>
            /\ Len(response.body.results) = Len(request.files)
            /\ \A i \in 1..Len(response.body.results) :
                  IsErrorOutcome(response.body.results[i])

C10_Witness ==
    /\ started
    /\ ~model_file.exists
    /\ label_file.exists
    /\ IsBulk
    /\ Len(request.files) >= 2
    /\ request.files[1].decodable
    /\ response.body.results[1].prediction = <<"Error: ", "Model not loaded">>
    /\ IsErrorOutcome(response.body.results[2])

IsHealth == request.endpoint = "/health"

\* the class names inference can report: the values of idx_to_label
RegisteredNames == { idx_to_label[i] : i \in DOMAIN idx_to_label }

\* C11: GET /health reports model_loaded exactly when a model is loaded,
\* and its classes are exactly the names of the index-to-name table that
\* inference uses, the fallback table included
C11_HealthReportsRegistry ==
    IsHealth =>
        /\ response.status = 200
        /\ response.body.model_loaded = (model # NoModel)
        /\ { response.body.classes[i] : i \in 1..Len(response.body.classes) }
              = RegisteredNames

\* C12: after startup, without a label-map file the registry is the
\* 7-entry default, with a label-map file the default is not installed,
\* and the registry is never empty
C12_DefaultRegistryAfterStartup ==
    started =>
        /\ ~label_file.exists => idx_to_label = DefaultIdxToLabel
        /\ label_file.exists => idx_to_label # DefaultIdxToLabel
        /\ DOMAIN idx_to_label # {}

====
